---- MODULE Spec2Model ----
(***************************************************************************)
(* woody_logger: a named logger writing to a daily-rotating file and to    *)
(* the console, with an optional health-check filter (logger.py).          *)
(*                                                                         *)
(* The clock counts whole hours since the epoch (UTC).  The instant of a   *)
(* record (time.time(), a float of seconds) is a pair: whole seconds and   *)
(* the fraction of a second in units of 100 ns.  Strings are sequences of  *)
(* one-character strings.                                                  *)
(***************************************************************************)
EXTENDS Integers, Sequences, FiniteSets, TLC

VARIABLES
    dirs,        \* directories that exist on disk
    disk,        \* files on disk: path [dir, base, suffix] -> sequence of written lines
    loggerDict,  \* logging's manager.loggerDict: name -> instance id (0: none yet)
    heap,        \* the logger instances, by id
    pc,          \* each thread's position
    arg,         \* each thread's get_logger arguments
    lg,          \* each thread's local `logger` (an instance id, 0: unset)
    snap,        \* what a get_logger call found when it started
    returned,    \* name -> the instance ids get_logger has returned for it
    now,         \* the clock: hours since the epoch
    hostOffset,  \* the host's timezone offset in hours (time.localtime)
    rec,         \* each thread's LogRecord in flight
    hidx,        \* each thread's position in Logger.callHandlers
    calls,       \* each thread's number of log calls issued
    issued,      \* each thread's records that passed the logger's filters, in order
    stderr,      \* sys.stderr: what the console handler and handleError wrote
    diskOk,      \* FALSE while file I/O fails (disk full, permissions)
    idleDays,    \* days the application let pass without logging
    fpats,       \* the patterns argument of the HealthCheckFilter that is asked
    fmsg,        \* the message given to HealthCheckFilter.filter
    fres,        \* what HealthCheckFilter.filter returned for it
    created,     \* the instant of the record given to formatTime
    asctime      \* what formatTime returned for it

vars == <<dirs, disk, loggerDict, heap, pc, arg, lg, snap, returned, now,
          hostOffset, rec, hidx, calls, issued, stderr, diskOk, idleDays,
          fpats, fmsg, fres, created, asctime>>

acqVars == <<dirs, disk, loggerDict, heap, arg, lg, snap, returned>>
logVars == <<rec, hidx, calls, issued, stderr>>
envVars == <<now, hostOffset, diskOk, idleDays>>
fltVars == <<fpats, fmsg, fres, created, asctime>>

----------------------------------------------------------------------------
(* Bounds and input sets *)

NThreads == 2
Threads == 1..NThreads

\* The longest message given to the filter, in fragments.
MaxFrags == 3

\* Log calls each thread issues, and clock ticks, while threads log
\* concurrently.
MaxCalls == 2
MaxTicks == 2

\* Days of daily logging, and days among them that pass without a log call.
MaxDays == 32
MaxIdleDays == 1

\* Filters a logger may hold when the caller takes its handlers away again.
MaxFilters == 1

Names == {"app", "svc"}
GoodDirs == {"logs", "var"}
DeniedDirs == {"ro"}          \* os.makedirs raises PermissionError there
AllDirs == GoodDirs \cup DeniedDirs

\* A character sequence for each string a regular expression is matched on.
S_GET == <<"G", "E", "T", " ">>
S_get == <<"g", "e", "t", " ">>
S_api == <<"/", "a", "p", "i">>
S_health == <<"/", "h", "e", "a", "l", "t", "h">>
S_HEALTH == <<"/", "H", "E", "A", "L", "T", "H">>
S_check == <<"c", "h", "e", "c", "k">>
S_iness == <<"i", "n", "e", "s", "s">>
S_ping == <<"/", "p", "i", "n", "g">>

----------------------------------------------------------------------------
(* Time: CHINA_TZ and the civil calendar *)

HoursPerDay == 24
CHINA_TZ == 8
\* The first instant of the model: 1970-12-02 00:00 UTC, so that a month of
\* days crosses the year's end.
StartHour == 335 * HoursPerDay

IsLeap(y) == (y % 4 = 0 /\ y % 100 # 0) \/ y % 400 = 0

DaysInMonth(y, m) ==
    IF m = 2 THEN (IF IsLeap(y) THEN 29 ELSE 28)
    ELSE IF m \in {4, 6, 9, 11} THEN 30 ELSE 31

DaysInYear(y) == IF IsLeap(y) THEN 366 ELSE 365

\* The date n days after the first day of month m of year y.
RECURSIVE CivilFrom(_, _, _)
CivilFrom(y, m, n) ==
    IF m = 1 /\ n >= DaysInYear(y) THEN CivilFrom(y + 1, 1, n - DaysInYear(y))
    ELSE IF n < DaysInMonth(y, m) THEN <<y, m, n + 1>>
    ELSE IF m = 12 THEN CivilFrom(y + 1, 1, n - DaysInMonth(y, m))
    ELSE CivilFrom(y, m + 1, n - DaysInMonth(y, m))

\* The civil date <<year, month, day>> and the hour of instant t at offset off.
DayOf(t, off) == (t + off) \div HoursPerDay
HourOf(t, off) == (t + off) % HoursPerDay
CivilDate(t, off) == CivilFrom(1970, 1, DayOf(t, off))

Digits == <<"0", "1", "2", "3", "4", "5", "6", "7", "8", "9">>
Digit(n) == Digits[(n % 10) + 1]
Fmt2(n) == <<Digit(n \div 10), Digit(n)>>
Fmt4(n) == <<Digit(n \div 1000), Digit(n \div 100), Digit(n \div 10), Digit(n)>>

\* strftime("%Y-%m-%d") of a civil date.
StrfDate(d) == Fmt4(d[1]) \o <<"-">> \o Fmt2(d[2]) \o <<"-">> \o Fmt2(d[3])

Fmt3(n) == <<Digit(n \div 100), Digit(n \div 10), Digit(n)>>

\* An instant: s whole seconds since the epoch and f units of 100 ns.
SecondsPerHour == 3600
SecondsPerDay == HoursPerDay * SecondsPerHour
UnitsPerMicro == 10
UnitsPerMilli == 1000 * UnitsPerMicro
MicrosPerSecond == 1000000

Instant(s, f) == [s |-> s, f |-> f]

\* time.time() when the clock reads t whole hours.
time_time(t) == Instant(t * SecondsPerHour, 0)

\* LogRecord.__init__: msecs = int((ct - int(ct)) * 1000) + 0.0
msecs(ct) == ct.f \div UnitsPerMilli

\* round(): to the nearest whole number, a half to the even one.
RoundHalfEven(n, d) ==
    LET q == n \div d
        r == n % d
    IN IF 2 * r > d \/ (2 * r = d /\ q % 2 = 1) THEN q + 1 ELSE q

\* datetime.fromtimestamp(t, tz): the fraction is rounded to whole
\* microseconds, and a fraction that rounds to a full second is carried
\* into the seconds; the result is the civil time at tz hours from UTC.
fromtimestamp(ct, tz) ==
    LET us == RoundHalfEven(ct.f, UnitsPerMicro)
        carry == IF us >= MicrosPerSecond THEN 1 ELSE 0
        secs == ct.s + carry + tz * SecondsPerHour
        sod == secs % SecondsPerDay
    IN [date |-> CivilFrom(1970, 1, secs \div SecondsPerDay),
        hour |-> sod \div SecondsPerHour,
        minute |-> (sod % SecondsPerHour) \div 60,
        second |-> sod % 60,
        microsecond |-> us - carry * MicrosPerSecond]

\* strftime("%Y-%m-%d %H:%M:%S") of a datetime.
StrfDateTime(dt) ==
    StrfDate(dt.date) \o <<" ">> \o Fmt2(dt.hour) \o <<":">> \o Fmt2(dt.minute)
      \o <<":">> \o Fmt2(dt.second)

\* ChinaTimeFormatter.formatTime(record) with no datefmt.
formatTime(record) ==
    LET ct == fromtimestamp(record.created, CHINA_TZ)
        s == StrfDateTime(ct)
    IN s \o <<",">> \o Fmt3(record.msecs)

\* The order Python's list.sort gives strings: by code point, a prefix first.
CharCode(c) ==
    IF c = "-" THEN 45
    ELSE 48 + (CHOOSE i \in 0..9 : Digits[i + 1] = c)

RECURSIVE StrLess(_, _)
StrLess(a, b) ==
    IF b = <<>> THEN FALSE
    ELSE IF a = <<>> THEN TRUE
    ELSE IF CharCode(Head(a)) # CharCode(Head(b)) THEN CharCode(Head(a)) < CharCode(Head(b))
    ELSE StrLess(Tail(a), Tail(b))

----------------------------------------------------------------------------
(* Regular expressions: re.compile(p, re.IGNORECASE) and pattern.search *)

UPPER == <<"A", "B", "C", "D", "E", "F", "G", "H", "I", "J", "K", "L", "M",
           "N", "O", "P", "Q", "R", "S", "T", "U", "V", "W", "X", "Y", "Z">>
LOWER == <<"a", "b", "c", "d", "e", "f", "g", "h", "i", "j", "k", "l", "m",
           "n", "o", "p", "q", "r", "s", "t", "u", "v", "w", "x", "y", "z">>

ToLower(c) ==
    IF \E i \in 1..Len(UPPER) : UPPER[i] = c
    THEN LOWER[CHOOSE i \in 1..Len(UPPER) : UPPER[i] = c]
    ELSE c

\* Whether re.compile accepts p: parentheses balance and "?" follows
\* something it can repeat.
RECURSIVE ParseOk(_, _, _)
ParseOk(p, i, depth) ==
    IF i > Len(p) THEN depth = 0
    ELSE IF p[i] = "(" THEN ParseOk(p, i + 1, depth + 1)
    ELSE IF p[i] = ")" THEN depth > 0 /\ ParseOk(p, i + 1, depth - 1)
    ELSE IF p[i] = "?" THEN i > 1 /\ p[i - 1] \notin {"(", "?"} /\ ParseOk(p, i + 1, depth)
    ELSE ParseOk(p, i + 1, depth)

\* The compiled pattern: a literal, an optional literal (c?), or the end
\* anchor ($).
RECURSIVE Tokens(_, _)
Tokens(p, i) ==
    IF i > Len(p) THEN <<>>
    ELSE IF p[i] = "$" THEN <<[t |-> "eos", c |-> ""]>> \o Tokens(p, i + 1)
    ELSE IF p[i] \in {"(", ")"} THEN Tokens(p, i + 1)
    ELSE IF i < Len(p) /\ p[i + 1] = "?"
         THEN <<[t |-> "opt", c |-> p[i]]>> \o Tokens(p, i + 2)
    ELSE <<[t |-> "lit", c |-> p[i]]>> \o Tokens(p, i + 1)

re_compile(p) == [ok |-> ParseOk(p, 1, 0), toks |-> Tokens(p, 1)]

\* An end anchor that holds at the very end of the string only (\Z).
AtEndStrict(msg, i) == i = Len(msg) + 1

\* "$" without re.MULTILINE: at the end of the string, and also just before
\* a newline that ends the string.
AtEnd(msg, i) ==
    \/ i = Len(msg) + 1
    \/ i = Len(msg) /\ msg[i] = "\n"

RECURSIVE MatchAt(_, _, _, _)
MatchAt(toks, k, msg, i) ==
    IF k > Len(toks) THEN TRUE
    ELSE IF toks[k].t = "eos" THEN AtEnd(msg, i) /\ MatchAt(toks, k + 1, msg, i)
    ELSE IF toks[k].t = "opt" THEN
        \/ i <= Len(msg) /\ ToLower(msg[i]) = ToLower(toks[k].c)
             /\ MatchAt(toks, k + 1, msg, i + 1)
        \/ MatchAt(toks, k + 1, msg, i)
    ELSE i <= Len(msg) /\ ToLower(msg[i]) = ToLower(toks[k].c)
           /\ MatchAt(toks, k + 1, msg, i + 1)

search(toks, msg) == \E i \in 1..(Len(msg) + 1) : MatchAt(toks, 1, msg, i)

----------------------------------------------------------------------------
(* HealthCheckFilter *)

DEFAULT_HEALTH_CHECK_PATTERNS ==
    << S_api \o S_health \o <<"/", "?", "$">>,
       S_health \o <<"/", "?", "$">> >>

\* health_check_patterns: None, or a list of pattern strings.
PatNone == [given |-> FALSE, pats |-> <<>>]
PatPing == [given |-> TRUE, pats |-> <<S_ping>>]
PatBad == [given |-> TRUE, pats |-> << <<"(">> >>]
PatEmpty == [given |-> TRUE, pats |-> <<>>]
PatternArgs == {PatNone, PatPing, PatBad, PatEmpty}

\* HealthCheckFilter.__init__: the patterns it compiles.
FilterSources(patterns) ==
    IF ~patterns.given THEN DEFAULT_HEALTH_CHECK_PATTERNS ELSE patterns.pats

FilterCompiles(patterns) ==
    \A k \in 1..Len(FilterSources(patterns)) : re_compile(FilterSources(patterns)[k]).ok

HealthCheckFilter(patterns) ==
    [_patterns |-> [k \in 1..Len(FilterSources(patterns)) |->
                       re_compile(FilterSources(patterns)[k]).toks]]

\* A loop that returns from its first round: only the first pattern counts.
FilterFirstOnly(pats, k, message) ==
    IF k > Len(pats) THEN TRUE ELSE ~search(pats[k], message)

\* HealthCheckFilter.filter: False at the first pattern that matches.
RECURSIVE FilterFrom(_, _, _)
FilterFrom(pats, k, message) ==
    IF k > Len(pats) THEN TRUE
    ELSE IF search(pats[k], message) THEN FALSE
    ELSE FilterFrom(pats, k + 1, message)

filter(f, message) == FilterFrom(f._patterns, 1, message)

\* A logger that asks no filter.
LoggerFilterNone(l, message) == Len(l.filters) >= 0

\* logging.Filterer.filter of a logger: every attached filter must pass.
LoggerFilter(l, message) ==
    \A k \in 1..Len(l.filters) : filter(l.filters[k], message)

----------------------------------------------------------------------------
(* The file system and the handlers get_logger builds *)

HostOffsets == {0, 8}

\* The active log file of logger `name` under `dir` ({dir}/{name}.log) has
\* the empty suffix; a rotated generation has its date as suffix.
Path(dir, name, suffix) == <<dir, name, suffix>>
LogFile(dir, name) == Path(dir, name, <<>>)

\* open(path, "a"): the file is created when missing, and kept otherwise.
OpenAppend(d, path, t) ==
    IF path \in DOMAIN d THEN d
    ELSE (path :> [lines |-> <<>>, mtime |-> t]) @@ d

\* TimedRotatingFileHandler.computeRollover for when="midnight": the next
\* midnight of the host's local time after currentTime.
computeRollover(currentTime, off) ==
    currentTime + (HoursPerDay - HourOf(currentTime, off))

FORMAT == <<"asctime", "levelname", "funcName", "message">>

\* TimedRotatingFileHandler(log_file, when="midnight", interval=1,
\* backupCount=30): the first rollover is computed from the file's mtime.
TimedRotatingFileHandler(d, dir, name, off) ==
    [kind |-> "file", dir |-> dir, base |-> name,
     rolloverAt |-> computeRollover(d[LogFile(dir, name)].mtime, off),
     stream |-> TRUE, owner |-> 0, formatter |-> FORMAT]

StreamHandler ==
    [kind |-> "console", dir |-> "", base |-> "", rolloverAt |-> 0,
     stream |-> TRUE, owner |-> 0, formatter |-> FORMAT]

\* A logger as logging.getLogger first makes it.
NewLogger(name) ==
    [name |-> name, level |-> "NOTSET", handlers |-> <<>>, filters |-> <<>>]

addHandler(h, id, hdlr) ==
    [h EXCEPT ![id].handlers = Append(@, hdlr)]

addFilter(h, id, f) ==
    [h EXCEPT ![id].filters = Append(@, f)]

\* A level that is set only while the logger has none.
setLevelIfUnset(h, id, level) ==
    IF h[id].level = "NOTSET" THEN [h EXCEPT ![id].level = level] ELSE h

setLevel(h, id, level) ==
    [h EXCEPT ![id].level = level]

NumKind(l, kind) ==
    Cardinality({i \in 1..Len(l.handlers) : l.handlers[i].kind = kind})

----------------------------------------------------------------------------
(* get_logger, statement by statement *)

\* The defaults of get_logger's parameters.
DefaultName == "app"
DefaultLogDir == "logs"
\* The default the docstring states ("默认为 False").
DefaultFilterHealthCheckDocstring == FALSE
DefaultFilterHealthCheck == TRUE
DefaultPatterns == PatNone

\* filter_health_check as the caller passes it: omitted, True or False.
FhcArgs == {"omitted", "True", "False"}

FilterHealthCheck(a) ==
    IF a.fhc = "omitted" THEN DefaultFilterHealthCheck ELSE a.fhc = "True"

NoArg == [name |-> DefaultName, log_dir |-> DefaultLogDir, fhc |-> "omitted",
          patterns |-> DefaultPatterns]
NoSnap == [dirs |-> {}, inst |-> NewLogger("")]

\* What the call finds: the directories, and the named instance (a logger
\* without handlers when the name was never looked up).
TakeSnap(name) ==
    [dirs |-> dirs,
     inst |-> IF loggerDict[name] = 0 THEN NewLogger(name)
              ELSE heap[loggerDict[name]]]

CallWith(t, names, ds, fs, ps) ==
    /\ pc[t] = "idle"
    /\ \E n \in names, d \in ds, f \in fs, p \in ps :
         /\ arg' = [arg EXCEPT ![t] =
                      [name |-> n, log_dir |-> d, fhc |-> f, patterns |-> p]]
         /\ snap' = [snap EXCEPT ![t] = TakeSnap(n)]
    /\ pc' = [pc EXCEPT ![t] = "makedirs"]
    /\ UNCHANGED <<dirs, disk, loggerDict, heap, lg, returned>>
    /\ UNCHANGED <<logVars, envVars, fltVars>>

Call(t) == CallWith(t, Names, AllDirs, FhcArgs, PatternArgs)

\* The call ends: its locals are gone.
Leave(t) ==
    /\ pc' = [pc EXCEPT ![t] = "idle"]
    /\ arg' = [arg EXCEPT ![t] = NoArg]
    /\ lg' = [lg EXCEPT ![t] = 0]
    /\ snap' = [snap EXCEPT ![t] = NoSnap]

\* os.makedirs(log_dir, exist_ok=True)
Makedirs(t) ==
    /\ pc[t] = "makedirs"
    /\ IF arg[t].log_dir \in DeniedDirs /\ arg[t].log_dir \notin dirs
       THEN /\ Leave(t)
            /\ UNCHANGED dirs
       ELSE /\ dirs' = dirs \cup {arg[t].log_dir}
            /\ pc' = [pc EXCEPT ![t] = "getLogger"]
            /\ UNCHANGED <<arg, lg, snap>>
    /\ UNCHANGED <<disk, loggerDict, heap, returned>>
    /\ UNCHANGED <<logVars, envVars, fltVars>>

\* A registry that forgets: every lookup makes a new instance.
LookupFresh(dict, h, name) ==
    [id |-> Len(h) + 1,
     dict |-> [dict EXCEPT ![name] = Len(h) + 1],
     heap |-> Append(h, NewLogger(name))]

\* logging.getLogger(name): the instance of that name, made on first use.
Lookup(dict, h, name) ==
    IF dict[name] # 0
    THEN [id |-> dict[name], dict |-> dict, heap |-> h]
    ELSE [id |-> Len(h) + 1,
          dict |-> [dict EXCEPT ![name] = Len(h) + 1],
          heap |-> Append(h, NewLogger(name))]

GetLogger(t) ==
    /\ pc[t] = "getLogger"
    /\ LET r == Lookup(loggerDict, heap, arg[t].name)
       IN /\ lg' = [lg EXCEPT ![t] = r.id]
          /\ loggerDict' = r.dict
          /\ heap' = r.heap
    /\ pc' = [pc EXCEPT ![t] = "setLevel"]
    /\ UNCHANGED <<dirs, disk, arg, snap, returned>>
    /\ UNCHANGED <<logVars, envVars, fltVars>>

\* logger.setLevel(logging.DEBUG)
SetLevel(t) ==
    /\ pc[t] = "setLevel"
    /\ heap' = setLevel(heap, lg[t], "DEBUG")
    /\ pc' = [pc EXCEPT ![t] = "check"]
    /\ UNCHANGED <<dirs, disk, loggerDict, arg, lg, snap, returned>>
    /\ UNCHANGED <<logVars, envVars, fltVars>>

\* A guard that never finds handlers: every call attaches again.
NoHandlersUnchecked(l) == Len(l.handlers) >= 0

\* A guard that looks for its own file handler only.
NoFileHandler(l) == NumKind(l, "file") = 0

\* if not logger.handlers:
NoHandlers(l) == l.handlers = <<>>

CheckHandlers(t) ==
    /\ pc[t] = "check"
    /\ pc' = [pc EXCEPT ![t] =
                IF NoHandlers(heap[lg[t]]) THEN "fileHandler" ELSE "return"]
    /\ UNCHANGED acqVars
    /\ UNCHANGED <<logVars, envVars, fltVars>>

\* The file handler: opens {log_dir}/{name}.log and is added to the logger.
\* The open raises OSError while file I/O fails.
AttachFile(t) ==
    /\ pc[t] = "fileHandler"
    /\ IF ~diskOk
       THEN /\ Leave(t)
            /\ UNCHANGED <<disk, heap>>
       ELSE LET d == OpenAppend(disk, LogFile(arg[t].log_dir, arg[t].name), now)
            IN /\ disk' = d
               /\ heap' = addHandler(heap, lg[t],
                            TimedRotatingFileHandler(d, arg[t].log_dir,
                                                     arg[t].name, hostOffset))
               /\ pc' = [pc EXCEPT ![t] = "consoleHandler"]
               /\ UNCHANGED <<arg, lg, snap>>
    /\ UNCHANGED <<dirs, loggerDict, returned>>
    /\ UNCHANGED <<logVars, envVars, fltVars>>

\* The console handler.
AttachConsole(t) ==
    /\ pc[t] = "consoleHandler"
    /\ heap' = addHandler(heap, lg[t], StreamHandler)
    /\ pc' = [pc EXCEPT ![t] = "filter"]
    /\ UNCHANGED <<dirs, disk, loggerDict, arg, lg, snap, returned>>
    /\ UNCHANGED <<logVars, envVars, fltVars>>

\* if filter_health_check: logger.addFilter(HealthCheckFilter(patterns)).
\* re.compile raises re.error on a pattern it cannot parse, and the call
\* ends there.
AttachFilter(t) ==
    /\ pc[t] = "filter"
    /\ IF ~FilterHealthCheck(arg[t])
       THEN /\ pc' = [pc EXCEPT ![t] = "return"]
            /\ UNCHANGED <<heap, arg, lg, snap>>
       ELSE IF ~FilterCompiles(arg[t].patterns)
       THEN /\ Leave(t)
            /\ UNCHANGED heap
       ELSE /\ heap' = addFilter(heap, lg[t], HealthCheckFilter(arg[t].patterns))
            /\ pc' = [pc EXCEPT ![t] = "return"]
            /\ UNCHANGED <<arg, lg, snap>>
    /\ UNCHANGED <<dirs, disk, loggerDict, returned>>
    /\ UNCHANGED <<logVars, envVars, fltVars>>

\* return logger
Return(t) ==
    /\ pc[t] = "return"
    /\ returned' = [returned EXCEPT ![arg[t].name] = @ \cup {lg[t]}]
    /\ Leave(t)
    /\ UNCHANGED <<dirs, disk, loggerDict, heap>>
    /\ UNCHANGED <<logVars, envVars, fltVars>>

----------------------------------------------------------------------------
(* The module is imported: logger = get_logger() *)

ImportDisk == OpenAppend(<<>>, LogFile(DefaultLogDir, DefaultName), StartHour)

ImportHeap(off) ==
    addFilter(
      addHandler(
        addHandler(
          setLevel(<<NewLogger(DefaultName)>>, 1, "DEBUG"),
          1, TimedRotatingFileHandler(ImportDisk, DefaultLogDir, DefaultName, off)),
        1, StreamHandler),
      1, HealthCheckFilter(DefaultPatterns))

Imported ==
    /\ hostOffset \in HostOffsets
    /\ now = StartHour
    /\ dirs = {DefaultLogDir}
    /\ disk = ImportDisk
    /\ loggerDict = [n \in Names |-> IF n = DefaultName THEN 1 ELSE 0]
    /\ heap = IF DefaultFilterHealthCheck THEN ImportHeap(hostOffset)
              ELSE [ImportHeap(hostOffset) EXCEPT ![1].filters = <<>>]
    /\ returned = [n \in Names |-> IF n = DefaultName THEN {1} ELSE {}]
    /\ pc = [t \in Threads |-> "idle"]
    /\ arg = [t \in Threads |-> NoArg]
    /\ lg = [t \in Threads |-> 0]
    /\ snap = [t \in Threads |-> NoSnap]
    /\ rec = [t \in Threads |-> <<>>]
    /\ hidx = [t \in Threads |-> 0]
    /\ calls = [t \in Threads |-> 0]
    /\ issued = [t \in Threads |-> <<>>]
    /\ stderr = <<>>
    /\ diskOk = TRUE
    /\ idleDays = 0

\* No filter and no formatter is asked on its own.
NoPure ==
    /\ fpats = PatNone
    /\ fmsg = <<>>
    /\ fres = "none"
    /\ created = Instant(0, 0)
    /\ asctime = <<>>

Init ==
    /\ Imported
    /\ NoPure

\* Threads call get_logger concurrently, each for a name that is new when
\* the first of them starts.
ConcurrentCall(t) ==
    CallWith(t, Names \ {DefaultName}, GoodDirs, {"omitted", "False"}, {PatNone})

Next ==
    \/ \E t \in Threads : ConcurrentCall(t)
    \/ \E t \in Threads : Makedirs(t)
    \/ \E t \in Threads : GetLogger(t)
    \/ \E t \in Threads : SetLevel(t)
    \/ \E t \in Threads : CheckHandlers(t)
    \/ \E t \in Threads : AttachFile(t)
    \/ \E t \in Threads : AttachConsole(t)
    \/ \E t \in Threads : AttachFilter(t)
    \/ \E t \in Threads : Return(t)

Spec == Init /\ [][Next]_vars

\* One call at a time: a call starts only when no other is under way.
SequentialCall(t) ==
    /\ \A u \in Threads \ {t} : pc[u] = "idle"
    /\ Call(t)

NextSeq ==
    \/ \E t \in Threads : SequentialCall(t)
    \/ \E t \in Threads : Makedirs(t)
    \/ \E t \in Threads : GetLogger(t)
    \/ \E t \in Threads : SetLevel(t)
    \/ \E t \in Threads : CheckHandlers(t)
    \/ \E t \in Threads : AttachFile(t)
    \/ \E t \in Threads : AttachConsole(t)
    \/ \E t \in Threads : AttachFilter(t)
    \/ \E t \in Threads : Return(t)

SpecSeq == Init /\ [][NextSeq]_vars

----------------------------------------------------------------------------
(* A log call: Logger.handle, then each handler's handle (acquire, emit,
   release) in the order the handlers were attached *)

SEP == <<" ", "-", " ">>

\* Formatter.format with the format string of get_logger, and the
\* terminator StreamHandler.emit appends.
Format(r) ==
    formatTime(r) \o SEP \o r.levelname \o SEP \o r.funcName \o SEP \o r.msg

Line(r) == Format(r) \o <<"\n">>

\* The message of thread t's k-th call: no two calls log the same text.
Message(t, k) == <<"m", Digit(t)>> \o Fmt2(k)

NoRec == <<>>

LogCallWith(t, limit, msgs) ==
    /\ pc[t] = "idle"
    /\ calls[t] < limit
    /\ \E n \in Names, m \in msgs :
         /\ loggerDict[n] # 0
         /\ rec' = [rec EXCEPT ![t] =
                      [logger |-> loggerDict[n], created |-> time_time(now),
                       msecs |-> msecs(time_time(now)),
                       levelname |-> <<"I", "N", "F", "O">>,
                       funcName |-> <<"f">>, msg |-> m]]
    /\ calls' = [calls EXCEPT ![t] = @ + 1]
    /\ pc' = [pc EXCEPT ![t] = "handle"]
    /\ UNCHANGED <<acqVars, hidx, issued, stderr, envVars, fltVars>>

LogCall(t) ==
    LogCallWith(t, MaxCalls, {Message(t, calls[t] + 1), S_GET \o S_health})

\* The log call returns.
Done(t) ==
    /\ pc' = [pc EXCEPT ![t] = "idle"]
    /\ rec' = [rec EXCEPT ![t] = NoRec]
    /\ hidx' = [hidx EXCEPT ![t] = 0]

\* Logger.handle: a record the logger's filters reject goes to no handler.
Handle(t) ==
    /\ pc[t] = "handle"
    /\ IF LoggerFilter(heap[rec[t].logger], rec[t].msg)
          /\ heap[rec[t].logger].handlers # <<>>
       THEN /\ issued' = [issued EXCEPT ![t] = Append(@, rec[t])]
            /\ hidx' = [hidx EXCEPT ![t] = 1]
            /\ pc' = [pc EXCEPT ![t] = "acquire"]
            /\ UNCHANGED rec
       ELSE /\ Done(t)
            /\ UNCHANGED issued
    /\ UNCHANGED <<acqVars, calls, stderr, envVars, fltVars>>

Hdlr(t) == heap[rec[t].logger].handlers[hidx[t]]

SetHdlr(t, h) == [heap EXCEPT ![rec[t].logger].handlers[hidx[t]] = h]

\* A handler without lock: handle() goes straight to emit.
AcquireUnlocked(t) ==
    /\ pc[t] = "acquire"
    /\ heap' = SetHdlr(t, [Hdlr(t) EXCEPT !.owner = t])
    /\ pc' = [pc EXCEPT ![t] = IF Hdlr(t).kind = "file" THEN "shouldRollover" ELSE "emit"]
    /\ UNCHANGED <<dirs, disk, loggerDict, arg, lg, snap, returned>>
    /\ UNCHANGED <<logVars, envVars, fltVars>>

\* Handler.acquire: the handler's lock.
Acquire(t) ==
    /\ pc[t] = "acquire"
    /\ Hdlr(t).owner = 0
    /\ heap' = SetHdlr(t, [Hdlr(t) EXCEPT !.owner = t])
    /\ pc' = [pc EXCEPT ![t] = IF Hdlr(t).kind = "file" THEN "shouldRollover" ELSE "emit"]
    /\ UNCHANGED <<dirs, disk, loggerDict, arg, lg, snap, returned>>
    /\ UNCHANGED <<logVars, envVars, fltVars>>

\* TimedRotatingFileHandler.shouldRollover
shouldRollover(h, t) == t >= h.rolloverAt

ShouldRollover(t) ==
    /\ pc[t] = "shouldRollover"
    /\ pc' = [pc EXCEPT ![t] = IF shouldRollover(Hdlr(t), now) THEN "doRollover" ELSE "emit"]
    /\ UNCHANGED <<acqVars, logVars, envVars, fltVars>>

backupCount == 30
interval == 1

\* The rotated generations of handler h's file.
Generations(d, h) ==
    {p \in DOMAIN d : p[1] = h.dir /\ p[2] = h.base /\ p[3] # <<>>}

\* A pruning that keeps the oldest generations.
getFilesToDeleteNewest(d, h) ==
    LET g == Generations(d, h)
    IN IF Cardinality(g) < backupCount THEN {}
       ELSE {p \in g : Cardinality({q \in g : StrLess(p[3], q[3])})
                          < Cardinality(g) - backupCount}

\* TimedRotatingFileHandler.getFilesToDelete: the names sorted, all but the
\* last backupCount of them.
getFilesToDelete(d, h) ==
    LET g == Generations(d, h)
    IN IF Cardinality(g) < backupCount THEN {}
       ELSE {p \in g : Cardinality({q \in g : StrLess(q[3], p[3])})
                          < Cardinality(g) - backupCount}

Remove(d, ps) == [p \in DOMAIN d \ ps |-> d[p]]

\* A rotation that throws the closed file away.
RotateDrop(d, src, dfn) == Remove(d, {src, dfn})

\* os.remove(dfn) if it exists, then os.rename(source, dfn) if source exists.
Rotate(d, src, dfn) ==
    IF src \in DOMAIN d
    THEN (dfn :> d[src]) @@ Remove(d, {src, dfn})
    ELSE Remove(d, {dfn})

RECURSIVE NextRollover(_, _)
NextRollover(r, t) == IF r <= t THEN NextRollover(r + interval * HoursPerDay, t) ELSE r

\* The name of the closed file: the host's local date of the start of the
\* interval that ends at rolloverAt.
RotationSuffix(h, off) ==
    StrfDate(CivilDate(h.rolloverAt - interval * HoursPerDay, off))

\* The first part of doRollover: the closed file is renamed and the excess
\* generations are removed.
RenameAndPrune(d, h, off) ==
    LET d2 == Rotate(d, LogFile(h.dir, h.base),
                     Path(h.dir, h.base, RotationSuffix(h, off)))
    IN Remove(d2, getFilesToDelete(d2, h))

\* TimedRotatingFileHandler.doRollover at time t.
doRollover(d, h, t, off) ==
    [disk |-> OpenAppend(RenameAndPrune(d, h, off), LogFile(h.dir, h.base), t),
     hdlr |-> [h EXCEPT !.stream = TRUE,
                        !.rolloverAt = NextRollover(computeRollover(t, off), t)]]

\* An emit without its try/except: the exception reaches the caller.
AfterErrorPropagates == "raised"

\* Where the call goes on after emit caught an exception and handleError
\* reported it: to the release of the handler's lock.
AfterError == "release"

\* Handler.handleError: the failure is written to sys.stderr.
handleError(err, r) == Append(err, [kind |-> "error", text |-> r.msg])

DoRollover(t) ==
    /\ pc[t] = "doRollover"
    /\ IF ~diskOk
       THEN \* The stream is closed; then the rename fails, or the rename
            \* is done and opening the new file fails.
            /\ heap' = SetHdlr(t, [Hdlr(t) EXCEPT !.stream = FALSE])
            /\ stderr' = handleError(stderr, rec[t])
            /\ pc' = [pc EXCEPT ![t] = AfterError]
            /\ disk' \in {disk, RenameAndPrune(disk, Hdlr(t), hostOffset)}
       ELSE LET r == doRollover(disk, Hdlr(t), now, hostOffset)
            IN /\ disk' = r.disk
               /\ heap' = SetHdlr(t, r.hdlr)
               /\ pc' = [pc EXCEPT ![t] = "emit"]
               /\ UNCHANGED stderr
    /\ UNCHANGED <<dirs, loggerDict, arg, lg, snap, returned>>
    /\ UNCHANGED <<rec, hidx, calls, issued, envVars, fltVars>>

\* stream.write(msg + self.terminator) on a file.
Write(d, path, line, t) ==
    [d EXCEPT ![path] = [lines |-> Append(@.lines, line), mtime |-> t]]

\* FileHandler.emit (the stream is reopened if a failed rollover left it
\* closed) and StreamHandler.emit.
Emit(t) ==
    /\ pc[t] = "emit"
    /\ IF Hdlr(t).kind = "console"
       THEN /\ stderr' = Append(stderr, [kind |-> "line", text |-> Line(rec[t])])
            /\ pc' = [pc EXCEPT ![t] = "release"]
            /\ UNCHANGED <<disk, heap>>
       ELSE IF ~diskOk
       THEN /\ stderr' = handleError(stderr, rec[t])
            /\ pc' = [pc EXCEPT ![t] = AfterError]
            /\ UNCHANGED <<disk, heap>>
       ELSE LET path == LogFile(Hdlr(t).dir, Hdlr(t).base)
            IN /\ disk' = Write(OpenAppend(disk, path, now), path, Line(rec[t]), now)
               /\ heap' = SetHdlr(t, [Hdlr(t) EXCEPT !.stream = TRUE])
               /\ pc' = [pc EXCEPT ![t] = "release"]
               /\ UNCHANGED stderr
    /\ UNCHANGED <<dirs, loggerDict, arg, lg, snap, returned>>
    /\ UNCHANGED <<rec, hidx, calls, issued, envVars, fltVars>>

\* Handler.release, and the next handler of Logger.callHandlers.
Release(t) ==
    /\ pc[t] = "release"
    /\ heap' = SetHdlr(t, [Hdlr(t) EXCEPT !.owner = 0])
    /\ IF hidx[t] < Len(heap[rec[t].logger].handlers)
       THEN /\ hidx' = [hidx EXCEPT ![t] = @ + 1]
            /\ pc' = [pc EXCEPT ![t] = "acquire"]
            /\ UNCHANGED rec
       ELSE Done(t)
    /\ UNCHANGED <<dirs, disk, loggerDict, arg, lg, snap, returned>>
    /\ UNCHANGED <<calls, issued, stderr, envVars, fltVars>>

----------------------------------------------------------------------------
(* The environment: the clock and the disk *)

TickSteps == {8}

\* Time passes while threads log.
Tick ==
    /\ \E step \in TickSteps :
         /\ now + step <= StartHour + MaxTicks * step
         /\ now' = now + step
    /\ UNCHANGED <<acqVars, pc, logVars, hostOffset, diskOk, idleDays, fltVars>>

\* File I/O starts to fail, and works again.
DiskFails ==
    /\ diskOk
    /\ diskOk' = FALSE
    /\ UNCHANGED <<acqVars, pc, logVars, now, hostOffset, idleDays, fltVars>>

DiskRecovers ==
    /\ ~diskOk
    /\ diskOk' = TRUE
    /\ UNCHANGED <<acqVars, pc, logVars, now, hostOffset, idleDays, fltVars>>

AllThreadsIdle == \A t \in Threads : pc[t] = "idle"

\* Threads log through the imported logger while the clock runs.
NextSink ==
    \/ \E t \in Threads : LogCall(t)
    \/ \E t \in Threads : Handle(t)
    \/ \E t \in Threads : Acquire(t)
    \/ \E t \in Threads : ShouldRollover(t)
    \/ \E t \in Threads : DoRollover(t)
    \/ \E t \in Threads : Emit(t)
    \/ \E t \in Threads : Release(t)
    \/ Tick

SpecSink == Init /\ [][NextSink]_vars

\* One thread logs while file I/O fails and recovers.
NextFault ==
    \/ LogCall(1)
    \/ Handle(1)
    \/ Acquire(1)
    \/ ShouldRollover(1)
    \/ DoRollover(1)
    \/ Emit(1)
    \/ Release(1)
    \/ Tick
    \/ DiskFails
    \/ DiskRecovers

SpecFault == Init /\ [][NextFault]_vars

\* The imported logger's file handler.
AppHandler == heap[loggerDict[DefaultName]].handlers[1]

\* A day passes, or two when the application lets a day pass without
\* logging; otherwise it has logged since the date changed.
TickDay ==
    /\ pc[1] = "idle"
    /\ ~shouldRollover(AppHandler, now)
    /\ \E n \in {1, 2} :
         /\ now + n * HoursPerDay <= StartHour + MaxDays * HoursPerDay
         /\ n = 2 => idleDays < MaxIdleDays
         /\ now' = now + n * HoursPerDay
         /\ idleDays' = idleDays + (n - 1)
    /\ UNCHANGED <<acqVars, pc, logVars, hostOffset, diskOk, fltVars>>

\* The first log call after the date changed.
DailyLogCall ==
    /\ shouldRollover(AppHandler, now)
    /\ LogCallWith(1, MaxDays + 1, {Message(1, calls[1] + 1)})

\* A month of daily logging through the imported logger.
NextRetention ==
    \/ DailyLogCall
    \/ Handle(1)
    \/ Acquire(1)
    \/ ShouldRollover(1)
    \/ DoRollover(1)
    \/ Emit(1)
    \/ Release(1)
    \/ TickDay

SpecRetention == Init /\ [][NextRetention]_vars

\* One thread acquires the logger "svc" once, with or without a filter, and
\* logs through the instances it has.
UseCall ==
    /\ \A n \in Names \ {DefaultName} : loggerDict[n] = 0
    /\ CallWith(1, Names \ {DefaultName}, {DefaultLogDir}, {"True", "False"},
                {PatNone, PatPing})

UseLogCall ==
    LogCallWith(1, MaxCalls,
                {Message(1, calls[1] + 1), S_GET \o S_health, S_GET \o S_ping})

NextUse ==
    \/ UseCall
    \/ Makedirs(1)
    \/ GetLogger(1)
    \/ SetLevel(1)
    \/ CheckHandlers(1)
    \/ AttachFile(1)
    \/ AttachConsole(1)
    \/ AttachFilter(1)
    \/ Return(1)
    \/ UseLogCall
    \/ Handle(1)
    \/ Acquire(1)
    \/ ShouldRollover(1)
    \/ DoRollover(1)
    \/ Emit(1)
    \/ Release(1)
    \/ Tick

SpecUse == Init /\ [][NextUse]_vars

\* The caller's own code between two get_logger calls: it changes the
\* level of a logger, takes a logger's handlers away, or gives a handler of
\* its own to the logger of some name.
ForeignHandler ==
    [kind |-> "foreign", dir |-> "", base |-> "", rolloverAt |-> 0,
     stream |-> TRUE, owner |-> 0, formatter |-> <<>>]

\* The names the caller works with, and the arguments it passes.
CallerNames == Names \ {DefaultName}

CallerCall == CallWith(1, CallerNames, GoodDirs, FhcArgs, {PatNone, PatPing})

CallerSetsLevel ==
    /\ AllThreadsIdle
    /\ \E n \in CallerNames :
         /\ loggerDict[n] # 0
         /\ heap[loggerDict[n]].level = "DEBUG"
         /\ heap' = [heap EXCEPT ![loggerDict[n]].level = "INFO"]
    /\ UNCHANGED <<dirs, disk, loggerDict, arg, lg, snap, returned>>
    /\ UNCHANGED <<pc, logVars, envVars, fltVars>>

CallerRemovesHandlers ==
    /\ AllThreadsIdle
    /\ \E n \in CallerNames :
         /\ loggerDict[n] # 0
         /\ heap[loggerDict[n]].handlers # <<>>
         /\ Len(heap[loggerDict[n]].filters) <= MaxFilters
         /\ heap' = [heap EXCEPT ![loggerDict[n]].handlers = <<>>]
    /\ UNCHANGED <<dirs, disk, loggerDict, arg, lg, snap, returned>>
    /\ UNCHANGED <<pc, logVars, envVars, fltVars>>

CallerAddsHandler ==
    /\ AllThreadsIdle
    /\ \E n \in CallerNames :
         LET r == Lookup(loggerDict, heap, n)
         IN /\ NumKind(r.heap[r.id], "foreign") = 0
            /\ loggerDict' = r.dict
            /\ heap' = addHandler(r.heap, r.id, ForeignHandler)
    /\ UNCHANGED <<dirs, disk, arg, lg, snap, returned>>
    /\ UNCHANGED <<pc, logVars, envVars, fltVars>>

\* File I/O fails or works again between two calls.
DiskFailsBetweenCalls == AllThreadsIdle /\ DiskFails
DiskRecoversBetweenCalls == AllThreadsIdle /\ DiskRecovers

\* One thread calls get_logger again and again, with its own code in
\* between.
NextCaller ==
    \/ CallerCall
    \/ Makedirs(1)
    \/ GetLogger(1)
    \/ SetLevel(1)
    \/ CheckHandlers(1)
    \/ AttachFile(1)
    \/ AttachConsole(1)
    \/ AttachFilter(1)
    \/ Return(1)
    \/ CallerSetsLevel
    \/ CallerRemovesHandlers
    \/ CallerAddsHandler
    \/ DiskFailsBetweenCalls
    \/ DiskRecoversBetweenCalls

SpecCaller == Init /\ [][NextCaller]_vars

----------------------------------------------------------------------------
(* HealthCheckFilter.filter applied to a message *)

Fragments == {S_api, S_health, S_HEALTH, S_check, S_iness, <<"/">>, <<"\n">>, <<"x">>}
Prefixes == {<<>>, S_GET, S_get}

RECURSIVE Bodies(_)
Bodies(n) ==
    IF n = 0 THEN {<<>>}
    ELSE Bodies(n - 1) \cup {b \o f : b \in Bodies(n - 1), f \in Fragments}

Messages == {p \o b : p \in Prefixes, b \in Bodies(MaxFrags)}

InitFilter ==
    /\ Imported
    /\ fpats = PatNone
    /\ fmsg \in Messages
    /\ fres = "none"
    /\ created = Instant(0, 0)
    /\ asctime = <<>>

\* A filter made from fpats is asked about a record whose getMessage() is
\* fmsg.
ApplyFilter ==
    /\ fres = "none"
    /\ fres' = IF filter(HealthCheckFilter(fpats), fmsg) THEN "pass" ELSE "drop"
    /\ UNCHANGED <<acqVars, pc, logVars, envVars, fpats, fmsg, created, asctime>>

NextFilter == ApplyFilter

SpecFilter == InitFilter /\ [][NextFilter]_vars

\* Pattern lists a caller may give: two patterns in either order, and a
\* pattern without an end anchor.
PatPingThenHealth == [given |-> TRUE, pats |-> <<S_ping, S_health \o <<"/", "?", "$">> >>]
PatHealthThenPing == [given |-> TRUE, pats |-> <<S_health \o <<"/", "?", "$">>, S_ping>>]
PatHealthAnywhere == [given |-> TRUE, pats |-> <<S_health>>]
FilterArgs ==
    {PatNone, PatEmpty, PatPing, PatPingThenHealth, PatHealthThenPing,
     PatHealthAnywhere}

S_PING == <<"/", "P", "I", "N", "G">>
PingMessages ==
    {p \o w \o t : p \in Prefixes, w \in {S_ping, S_PING},
                    t \in {<<>>, <<"/">>, <<"\n">>, <<"x">>, S_health}}

InitFilterAny ==
    /\ Imported
    /\ fpats \in {a \in FilterArgs : FilterCompiles(a)}
    /\ fmsg \in Messages \cup PingMessages
    /\ fres = "none"
    /\ created = Instant(0, 0)
    /\ asctime = <<>>

SpecFilterAny == InitFilterAny /\ [][NextFilter]_vars

----------------------------------------------------------------------------
(* ChinaTimeFormatter.formatTime applied to a record *)

\* Whole seconds of the instants rendered: the epoch, the seconds around
\* midnight and around the year's end at UTC+8 and at UTC, a leap day, the
\* time of import and a recent time.
EpochSeconds ==
    {0, 57599, 57600, 31507199, 31535999, 68173261,
     StartHour * SecondsPerHour, 1700000000}

\* Fractions of a second, in units of 100 ns: whole milliseconds, 499.6 ms,
\* and the last microsecond before the next second.
Fractions ==
    {0, 10000, 4996000, 4999999, 9990000, 9999985, 9999994, 9999995,
     9999996, 9999999}

InitTime ==
    /\ Imported
    /\ fpats = PatNone
    /\ fmsg = <<>>
    /\ fres = "none"
    /\ created \in {Instant(s, f) : s \in EpochSeconds, f \in Fractions}
    /\ asctime = <<>>

\* A record made at the instant `created` is rendered with no datefmt.
RenderTime ==
    /\ asctime = <<>>
    /\ asctime' = formatTime([created |-> created, msecs |-> msecs(created)])
    /\ UNCHANGED <<acqVars, pc, logVars, envVars, fpats, fmsg, fres, created>>

NextTime == RenderTime

SpecTime == InitTime /\ [][NextTime]_vars

----------------------------------------------------------------------------
(* Rendering of the timestamp: claims C11 and C12 *)

\* The civil date and time, to the second, of the UTC clock of instant ct
\* moved ahead by 8 hours.
C11_CivilAtUTC8(ct) ==
    LET secs == ct.s + 8 * 3600
        d == CivilFrom(1970, 1, secs \div 86400)
    IN Fmt4(d[1]) \o <<"-">> \o Fmt2(d[2]) \o <<"-">> \o Fmt2(d[3]) \o <<" ">>
         \o Fmt2((secs % 86400) \div 3600) \o <<":">>
         \o Fmt2((secs % 3600) \div 60) \o <<":">> \o Fmt2(secs % 60)

\* C11: for every instant and every host timezone, the rendered string
\* starts with the civil date and time of that instant at UTC+8 (hence the
\* same string under every host timezone).
C11_RendersCivilTimeAtUTC8 ==
    asctime # <<>> => SubSeq(asctime, 1, 19) = C11_CivilAtUTC8(created)

\* C12: the rendered string is YYYY-MM-DD HH:MM:SS,mmm: 23 characters with
\* a comma before three digits, mmm being the fraction of the second cut
\* to whole milliseconds, and the seconds field that of the instant's own
\* second: the fraction is never carried into it.
C12_TruncatedMillisNoCarry ==
    asctime # <<>> =>
        /\ Len(asctime) = 23
        /\ asctime[5] = "-" /\ asctime[8] = "-" /\ asctime[11] = " "
        /\ asctime[14] = ":" /\ asctime[17] = ":" /\ asctime[20] = ","
        /\ SubSeq(asctime, 21, 23) = Fmt3(created.f \div 10000)
        /\ created.f = 4996000 => SubSeq(asctime, 21, 23) = <<"4", "9", "9">>
        /\ SubSeq(asctime, 18, 19) = Fmt2(created.s % 60)

----------------------------------------------------------------------------
(* Acquisition: claims C1-C4 and C9 *)

\* The call of thread t found an established instance when it started.
Existed(t) == snap[t].inst.handlers # <<>>

OneSinkSet(l) ==
    /\ Len(l.handlers) = 2
    /\ NumKind(l, "file") = 1
    /\ NumKind(l, "console") = 1
    /\ \A i \in 1..Len(l.handlers) :
         l.handlers[i].kind = "file" =>
           /\ l.handlers[i].stream
           /\ LogFile(l.handlers[i].dir, l.handlers[i].base) \in DOMAIN disk

\* C1: when get_logger calls follow one another, all calls for a name return
\* the same instance, and that instance holds exactly one file sink (with
\* its file open) and one console sink after every call, however many calls
\* were made.
C1_SameInstanceOneSinkSet ==
    \A n \in Names :
        /\ Cardinality(returned[n]) <= 1
        /\ \A id \in returned[n] :
             /\ loggerDict[n] = id
             /\ heap[id].name = n
             /\ OneSinkSet(heap[id])

\* A repeat call for "svc" has reached its return statement with the
\* instance an earlier call returned.
C1_Witness ==
    \E t \in Threads :
        /\ pc[t] = "return"
        /\ arg[t].name = "svc"
        /\ lg[t] \in returned["svc"]
        /\ OneSinkSet(heap[lg[t]])

\* C2: under concurrent get_logger calls for a new name, every instance has
\* at most one file sink, one console sink and one filter.
C2_SingleSinkSetUnderRace ==
    \A id \in 1..Len(heap) :
        /\ NumKind(heap[id], "file") <= 1
        /\ NumKind(heap[id], "console") <= 1
        /\ Len(heap[id].filters) <= 1

C4_NoPartialLoggerAfterConfigError ==
    [][\A t \in Threads :
         (pc[t] = "filter" /\ pc'[t] = "idle") => NoHandlers(heap'[lg[t]])]_vars

\* The two default patterns, as written in the source.
C9_DefaultPatterns ==
    << <<"/", "a", "p", "i", "/", "h", "e", "a", "l", "t", "h", "/", "?", "$">>,
       <<"/", "h", "e", "a", "l", "t", "h", "/", "?", "$">> >>

C9_Expected(a) ==
    IF a.patterns.given THEN a.patterns.pats ELSE C9_DefaultPatterns

----------------------------------------------------------------------------
(* The default patterns: claim C10 *)

\* msg ends in the characters of tail, letter case ignored.
EndsWithIC(msg, tail) ==
    /\ Len(msg) >= Len(tail)
    /\ \A k \in 1..Len(tail) :
         ToLower(msg[Len(msg) - Len(tail) + k]) = ToLower(tail[k])

EndsInHealthPath(msg) ==
    \/ EndsWithIC(msg, <<"/", "h", "e", "a", "l", "t", "h">>)
    \/ EndsWithIC(msg, <<"/", "h", "e", "a", "l", "t", "h", "/">>)

\* msg without the one newline that may end it.
ChompNewline(msg) ==
    IF Len(msg) > 0 /\ msg[Len(msg)] = "\n" THEN SubSeq(msg, 1, Len(msg) - 1) ELSE msg

\* C10 as stated: the default filter suppresses exactly the messages that
\* end, letter case ignored, in "/health" or "/health/".
C10_SuppressesExactlyHealthEndings ==
    fres # "none" => (fres = "drop" <=> EndsInHealthPath(fmsg))

\* C10 as amended: the default filter suppresses exactly the messages that
\* end, letter case ignored, in "/health" or "/health/", or in one of these
\* followed by a single newline; the listed examples are suppressed and
\* passed as the claim says.
C10_SuppressesHealthEndingsUpToNewline ==
    fres # "none" =>
        /\ fres = "drop" <=> EndsInHealthPath(ChompNewline(fmsg))
        /\ fmsg \in {S_GET \o S_health, S_GET \o S_health \o <<"/">>,
                     S_GET \o S_api \o S_health, S_get \o S_HEALTH} => fres = "drop"
        /\ fmsg \in {S_GET \o S_health \o S_check,
                     S_GET \o S_api \o S_health \o S_iness} => fres = "pass"

\* The filter has suppressed a health-check message that a newline ends.
C10_Witness ==
    /\ fres = "drop"
    /\ fmsg = S_GET \o S_api \o S_health \o <<"\n">>

\* w occurs somewhere in msg, letter case ignored.
ContainsIC(msg, w) ==
    \E i \in 1..(Len(msg) - Len(w) + 1) :
        \A k \in 1..Len(w) : ToLower(msg[i + k - 1]) = ToLower(w[k])

\* What each pattern of the lists above matches, said without the matcher.
C13_Matches(p, msg) ==
    IF p = <<"/", "p", "i", "n", "g">> THEN ContainsIC(msg, p)
    ELSE IF p = <<"/", "h", "e", "a", "l", "t", "h">> THEN ContainsIC(msg, p)
    ELSE IF p = <<"/", "h", "e", "a", "l", "t", "h", "/", "?", "$">>
    THEN EndsInHealthPath(ChompNewline(msg))
    ELSE \/ EndsWithIC(ChompNewline(msg), <<"/", "a", "p", "i", "/", "h", "e", "a", "l", "t", "h">>)
         \/ EndsWithIC(ChompNewline(msg), <<"/", "a", "p", "i", "/", "h", "e", "a", "l", "t", "h", "/">>)

C13_Sources == IF fpats.given THEN fpats.pats ELSE C9_DefaultPatterns

Reverse(q) == [k \in 1..Len(q) |-> q[Len(q) + 1 - k]]

\* C13: the filter returns false iff at least one of its patterns matches
\* somewhere in the message, letter case ignored, and true otherwise; the
\* pattern list in reverse order gives the same result; and a filter with
\* an empty pattern list passes every message.
C13_SuppressesIffSomePatternMatches ==
    fres # "none" =>
        /\ fres = "drop" <=>
              \E k \in 1..Len(C13_Sources) : C13_Matches(C13_Sources[k], fmsg)
        /\ fpats.given =>
              (fres = "pass") =
                 filter(HealthCheckFilter([fpats EXCEPT !.pats = Reverse(@)]), fmsg)
        /\ (fpats.given /\ fpats.pats = <<>>) => fres = "pass"

\* A message that only the second pattern of the list matches, in the
\* middle of a longer text and in another letter case, was suppressed.
C13_Witness ==
    /\ fres = "drop"
    /\ fpats = PatHealthThenPing
    /\ fmsg = S_GET \o S_PING \o <<"x">>

----------------------------------------------------------------------------
(* The file sink: claims C5 and C7 *)

DateLess(a, b) ==
    \/ a[1] < b[1]
    \/ a[1] = b[1] /\ a[2] < b[2]
    \/ a[1] = b[1] /\ a[2] = b[2] /\ a[3] < b[3]

\* The date D the sink holds for its open file: the date it will name the
\* file with when it closes it.
RecordedDate(h) == CivilDate(h.rolloverAt - interval * HoursPerDay, hostOffset)

\* C5: whatever the host's timezone, a write rotates the file exactly when
\* the UTC+8 clock reads a date after the sink's recorded date D, and does
\* not rotate it while the UTC+8 clock still reads D.
C5_RotatesOnChinaCalendar ==
    [][\A t \in Threads :
         (pc[t] = "shouldRollover" /\ pc'[t] # "shouldRollover") =>
            (pc'[t] = "doRollover"
               <=> DateLess(RecordedDate(Hdlr(t)), CivilDate(now, CHINA_TZ)))]_vars

\* All lines written through the imported logger's file handler: the
\* rotated generations from the oldest on, then the open file.
RECURSIVE LinesOfGenerations(_)
LinesOfGenerations(g) ==
    IF g = {} THEN <<>>
    ELSE LET first == CHOOSE p \in g : \A q \in g \ {p} : StrLess(p[3], q[3])
         IN disk[first].lines \o LinesOfGenerations(g \ {first})

AppLines ==
    LinesOfGenerations(Generations(disk, AppHandler))
      \o (IF LogFile(AppHandler.dir, AppHandler.base) \in DOMAIN disk
          THEN disk[LogFile(AppHandler.dir, AppHandler.base)].lines
          ELSE <<>>)

IssuedLines(t) == [k \in 1..Len(issued[t]) |-> Line(issued[t][k])]

LinesOfThread(t, lines) ==
    LET mine(l) == \E k \in 1..Len(issued[t]) : l = Line(issued[t][k])
    IN SelectSeq(lines, mine)

IsPrefix(a, b) == Len(a) <= Len(b) /\ a = SubSeq(b, 1, Len(a))

AllIdle == \A t \in Threads : pc[t] = "idle"

\* C7: with threads logging concurrently, every line of the file sink is
\* the complete line of one record; the lines of each thread appear in the
\* order of its calls, each once; and when all calls have returned, every
\* record that was not suppressed has its line: N*M lines for N threads of
\* M unsuppressed calls each.
C7_CompleteLinesInThreadOrder ==
    /\ \A i \in 1..Len(AppLines) :
         \E t \in Threads : \E k \in 1..Len(issued[t]) :
             AppLines[i] = Line(issued[t][k])
    /\ \A t \in Threads : IsPrefix(LinesOfThread(t, AppLines), IssuedLines(t))
    /\ AllIdle => \A t \in Threads : LinesOfThread(t, AppLines) = IssuedLines(t)
    /\ (AllIdle /\ \A t \in Threads : Len(issued[t]) = MaxCalls)
          => Len(AppLines) = NThreads * MaxCalls

\* Every thread has issued all its calls, none suppressed, the file was
\* rotated in between, and the threads' lines interleave.
C7_Witness ==
    /\ AllIdle
    /\ \A t \in Threads : Len(issued[t]) = MaxCalls
    /\ Generations(disk, AppHandler) # {}
    /\ Len(AppLines) = NThreads * MaxCalls
    /\ AppLines[1] = Line(issued[2][1])
    /\ AppLines[2] = Line(issued[1][1])

----------------------------------------------------------------------------
(* Retention and I/O failures: claims C6 and C8 *)

DigitVal(c) == CharCode(c) - 48

\* The civil date a YYYY-MM-DD suffix names.
DateOfSuffix(x) ==
    << 1000 * DigitVal(x[1]) + 100 * DigitVal(x[2]) + 10 * DigitVal(x[3]) + DigitVal(x[4]),
       10 * DigitVal(x[6]) + DigitVal(x[7]),
       10 * DigitVal(x[9]) + DigitVal(x[10]) >>

Older(p, q) == DateLess(DateOfSuffix(p[3]), DateOfSuffix(q[3]))

Min(a, b) == IF a <= b THEN a ELSE b

\* C6: there are never more than 30 rotated generations; a rotation adds
\* the closed file and keeps the 30 most recent of what is there then, every
\* generation it removes being older than every one it keeps; after k daily
\* rotations min(k, 30) generations remain, and after the 31st the
\* first-created one is gone.
C6_KeepsThirtyMostRecent ==
    /\ [](/\ Cardinality(Generations(disk, AppHandler)) <= 30
          /\ AllIdle => Cardinality(Generations(disk, AppHandler)) = Min(calls[1], 30)
          /\ (AllIdle /\ calls[1] >= 31) =>
                \A p \in Generations(disk, AppHandler) :
                    DateLess(CivilDate(StartHour, hostOffset), DateOfSuffix(p[3])))
    /\ [][LET before == Generations(disk, AppHandler)
              after == Generations(disk', AppHandler')
              all == before \cup after
          IN after # before =>
               /\ Cardinality(after \ before) = 1
               /\ Cardinality(after) = Min(Cardinality(all), 30)
               /\ \A r \in all \ after : \A k \in after : Older(r, k)]_vars

\* The 31st daily rotation is done: 30 generations remain, the one of the
\* first day (1970-12-02) is gone and the one of the second day is the
\* oldest left.
C6_Witness ==
    /\ AllIdle
    /\ calls[1] = 31
    /\ idleDays = 0
    /\ Cardinality(Generations(disk, AppHandler)) = 30
    /\ Path(DefaultLogDir, DefaultName, StrfDate(<<1970, 12, 2>>)) \notin DOMAIN disk
    /\ Path(DefaultLogDir, DefaultName, StrfDate(<<1970, 12, 3>>)) \in DOMAIN disk
    /\ Path(DefaultLogDir, DefaultName, StrfDate(<<1971, 1, 1>>)) \in DOMAIN disk

EndsWith(l, tail) ==
    Len(l) >= Len(tail) /\ SubSeq(l, Len(l) - Len(tail) + 1, Len(l)) = tail

\* The messages handleError has reported.
Reported(err) == {err[i].text : i \in {j \in 1..Len(err) : err[j].kind = "error"}}

\* No file holds a line of a record whose write or rotation failed.
NotRetried(d, err) ==
    \A p \in DOMAIN d : \A i \in 1..Len(d[p].lines) :
        \A m \in Reported(err) : ~EndsWith(d[p].lines[i], m \o <<"\n">>)

\* C8: a write or rotation that fails does not end the log call: the
\* failure is reported on the error stream, no line is written, the call
\* goes on to release the handler and returns; the record is never written
\* later; and a write made while I/O works appends its line to the log
\* file, also after a failure left the stream closed.
C8_IOFailureStaysInSink ==
    [][/\ \A t \in Threads :
            (pc[t] \in {"doRollover", "emit"} /\ pc'[t] # pc[t]
               /\ Hdlr(t).kind = "file") =>
               IF ~diskOk
               THEN /\ pc'[t] = "release"
                    /\ stderr' = Append(stderr, [kind |-> "error", text |-> rec[t].msg])
                    /\ \A p \in DOMAIN disk' : \E q \in DOMAIN disk :
                           disk'[p].lines = disk[q].lines
               ELSE pc[t] = "emit" =>
                    LET path == LogFile(Hdlr(t).dir, Hdlr(t).base)
                    IN /\ pc'[t] = "release"
                       /\ path \in DOMAIN disk'
                       /\ disk'[path].lines =
                            (IF path \in DOMAIN disk THEN disk[path].lines ELSE <<>>)
                              \o <<Line(rec[t])>>
       /\ \A t \in Threads : pc'[t] # "raised"
       /\ NotRetried(disk', stderr')]_vars

\* The first call's rotation failed and was reported; the second call
\* rotated the file and wrote its line.
C8_Witness ==
    /\ AllIdle
    /\ Message(1, 1) \in Reported(stderr)
    /\ Generations(disk, AppHandler) # {}
    /\ \E i \in 1..Len(AppLines) : EndsWith(AppLines[i], Message(1, 2) \o <<"\n">>)
    /\ \A i \in 1..Len(AppLines) : ~EndsWith(AppLines[i], Message(1, 1) \o <<"\n">>)

----------------------------------------------------------------------------
(* From the log call to the sinks: claim C14 *)

\* Logger l has a filter with the pattern compiled from source p.
HasPattern(l, p) ==
    \E i \in 1..Len(l.filters) : \E k \in 1..Len(l.filters[i]._patterns) :
        l.filters[i]._patterns[k] = re_compile(p).toks

\* The installed filter suppresses msg, said without the matcher.
C14_Suppressed(l, msg) ==
    \E p \in {C9_DefaultPatterns[1], C9_DefaultPatterns[2], <<"/", "p", "i", "n", "g">>} :
        HasPattern(l, p) /\ C13_Matches(p, msg)

\* "{timestamp} - {level} - {originFunctionName} - {message}" and the end
\* of the line, for a record made on a whole second.
C14_Line(r) ==
    C11_CivilAtUTC8(r.created) \o <<",", "0", "0", "0">>
      \o <<" ", "-", " ">> \o r.levelname
      \o <<" ", "-", " ">> \o r.funcName
      \o <<" ", "-", " ">> \o r.msg \o <<"\n">>

\* All lines in the files of the logger with this id: rotated generations,
\* then the open file.
FileLinesOf(id) ==
    LET h == heap[id].handlers[1]
    IN LinesOfGenerations(Generations(disk, h))
         \o (IF LogFile(h.dir, h.base) \in DOMAIN disk
             THEN disk[LogFile(h.dir, h.base)].lines ELSE <<>>)

ConsoleLines == [i \in 1..Len(stderr) |-> stderr[i].text]

Count(x, q) == Cardinality({i \in 1..Len(q) : q[i] = x})

RECURSIVE AllFileLines(_)
AllFileLines(ps) ==
    IF ps = {} THEN <<>>
    ELSE LET p == CHOOSE q \in ps : TRUE
         IN disk[p].lines \o AllFileLines(ps \ {p})

\* C14: a log call asks the logger's filter before any sink: a record the
\* filter suppresses ends the call with nothing written to the file or the
\* console; a record that passes, or any record on a logger without
\* filter, goes to the handlers, each of which writes the one line
\* "{timestamp} - {level} - {function} - {message}"; when the call
\* returns that line is in the logger's file and on the console, and the
\* file and the console hold the same lines equally often.
C14_FilterThenBothSinks ==
    /\ [][\A t \in Threads :
             /\ (pc[t] = "handle" /\ pc'[t] # "handle") =>
                   IF C14_Suppressed(heap[rec[t].logger], rec[t].msg)
                   THEN pc'[t] = "idle" /\ disk' = disk /\ stderr' = stderr
                   ELSE pc'[t] = "acquire" /\ hidx'[t] = 1
             /\ (pc[t] = "emit" /\ pc'[t] # "emit") =>
                   /\ ~C14_Suppressed(heap[rec[t].logger], rec[t].msg)
                   /\ IF Hdlr(t).kind = "console"
                      THEN /\ ConsoleLines' = Append(ConsoleLines, C14_Line(rec[t]))
                           /\ disk' = disk
                      ELSE /\ stderr' = stderr
                           /\ disk'[<<Hdlr(t).dir, heap[rec[t].logger].name, <<>> >>].lines
                                = disk[<<Hdlr(t).dir, heap[rec[t].logger].name, <<>> >>].lines
                                    \o <<C14_Line(rec[t])>>
             /\ (pc[t] = "release" /\ pc'[t] = "idle") =>
                   /\ \A id \in 1..Len(heap) : id = rec[t].logger =>
                          Count(C14_Line(rec[t]), FileLinesOf(id)') >= 1
                   /\ Count(C14_Line(rec[t]), ConsoleLines') >= 1
             /\ (pc[t] # "emit" /\ pc[t] # "doRollover" /\ pc'[t] # pc[t]) =>
                   /\ stderr' = stderr
                   /\ \A p \in DOMAIN disk' :
                         disk'[p].lines = IF p \in DOMAIN disk THEN disk[p].lines
                                          ELSE <<>>]_vars
    /\ [](AllIdle =>
            \A i \in 1..Len(ConsoleLines) :
                Count(ConsoleLines[i], AllFileLines(DOMAIN disk))
                  = Count(ConsoleLines[i], ConsoleLines))
    /\ [](AllIdle => Len(AllFileLines(DOMAIN disk)) = Len(ConsoleLines))

\* A health-check message logged on "app" was suppressed, and the same
\* message logged on "svc", acquired without filter, is in svc's file and
\* on the console.
C14_Witness ==
    /\ AllIdle
    /\ calls[1] = MaxCalls
    /\ loggerDict["svc"] # 0
    /\ returned["svc"] # {}
    /\ heap[loggerDict["svc"]].filters = <<>>
    /\ FileLinesOf(loggerDict[DefaultName]) = <<>>
    /\ Len(FileLinesOf(loggerDict["svc"])) = 1
    /\ EndsWith(FileLinesOf(loggerDict["svc"])[1], S_health \o <<"\n">>)
    /\ ConsoleLines = FileLinesOf(loggerDict["svc"])

----------------------------------------------------------------------------
(* The file sink's lock: claim C15 *)

\* Thread t is between acquire and release of the imported logger's file
\* handler: in the rotation check, the rotation, the write or the release.
InFileSink(t) ==
    \/ pc[t] \in {"shouldRollover", "doRollover"}
    \/ pc[t] \in {"emit", "release"} /\ Hdlr(t).kind = "file"

AppFile == LogFile(AppHandler.dir, AppHandler.base)

\* C15: at most one thread at a time is in the rotation check, the
\* rotation or the write of the file sink; the rotated files never
\* outnumber the date boundaries passed, and every written line is in
\* exactly one file; the files change only in a rotation or a write, both
\* steps of a log call: a rotation happens when the clock has reached the
\* sink's rollover time, moves all lines of the open file to one new dated
\* file, leaves a new empty open file and puts the rollover time past the
\* clock (so that the next writer does not rotate again); a write appends
\* its line to the open file; and the check made before each write sends
\* the writer to the rotation exactly when the rollover time is reached.
C15_OneRotationUnderLock ==
    /\ [](/\ Cardinality({t \in Threads : InFileSink(t)}) <= 1
          /\ Cardinality(Generations(disk, AppHandler))
                <= DayOf(now, hostOffset) - DayOf(StartHour, hostOffset)
          /\ \A t \in Threads : \A k \in 1..Len(issued[t]) :
                Count(Line(issued[t][k]), AppLines) <= 1
          /\ AllIdle => \A t \in Threads : \A k \in 1..Len(issued[t]) :
                Count(Line(issued[t][k]), AppLines) = 1)
    /\ [][/\ disk' # disk =>
               \E t \in Threads :
                  \/ /\ pc[t] = "doRollover" /\ pc'[t] = "emit"
                     /\ now >= AppHandler.rolloverAt
                     /\ AppHandler'.rolloverAt > now
                     /\ \E g \in Generations(disk', AppHandler') :
                           /\ g \notin DOMAIN disk
                           /\ Generations(disk', AppHandler')
                                = Generations(disk, AppHandler) \cup {g}
                           /\ disk'[g].lines = disk[AppFile].lines
                     /\ disk'[AppFile].lines = <<>>
                     /\ \A p \in Generations(disk, AppHandler) : disk'[p] = disk[p]
                  \/ /\ pc[t] = "emit" /\ pc'[t] = "release"
                     /\ Hdlr(t).kind = "file"
                     /\ disk'[AppFile].lines = Append(disk[AppFile].lines, Line(rec[t]))
                     /\ \A p \in DOMAIN disk' \ {AppFile} :
                           p \in DOMAIN disk /\ disk'[p] = disk[p]
          /\ \A t \in Threads :
               (pc[t] = "shouldRollover" /\ pc'[t] # pc[t]) =>
                   (pc'[t] = "doRollover" <=> now >= AppHandler.rolloverAt)]_vars

\* Both threads log after the rollover time has passed: one of them has
\* rotated the file and is about to write into the new, empty file while
\* the other waits for the sink's lock.
C15_Witness ==
    \E t \in Threads : \E u \in Threads \ {t} :
        /\ pc[t] = "emit" /\ Hdlr(t).kind = "file"
        /\ pc[u] = "acquire" /\ hidx[u] = 1
        /\ Cardinality(Generations(disk, AppHandler)) = 1
        /\ disk[AppFile].lines = <<>>
        /\ \E g \in Generations(disk, AppHandler) : disk[g].lines # <<>>
        /\ rec[u].created = rec[t].created

----------------------------------------------------------------------------
(* What get_logger decides on, and what it does on every call: claims C16
   and C17 *)

C16_Requested(a) == a.fhc \in {"omitted", "True"}

\* C16: a call that returns has attached sinks exactly when the named
\* logger had no handler of any kind when the call was made, whether or
\* not the name was acquired before: then the logger holds one file sink
\* at {log_dir}/{name}.log and one console sink, and one more filter than
\* before if filtering was requested; otherwise its handlers and filters
\* are those it had.
C16_AttachesIffNoSinks ==
    \A t \in Threads :
        pc[t] = "return" =>
            LET l == heap[lg[t]]
                was == snap[t].inst
            IN IF was.handlers = <<>>
               THEN /\ Len(l.handlers) = 2
                    /\ l.handlers[1].kind = "file"
                    /\ l.handlers[1].dir = arg[t].log_dir
                    /\ l.handlers[1].base = arg[t].name
                    /\ l.handlers[2].kind = "console"
                    /\ IF C16_Requested(arg[t])
                       THEN /\ Len(l.filters) = Len(was.filters) + 1
                            /\ SubSeq(l.filters, 1, Len(was.filters)) = was.filters
                            /\ \A k \in 1..Len(C9_Expected(arg[t])) :
                                 l.filters[Len(l.filters)]._patterns[k]
                                   = re_compile(C9_Expected(arg[t])[k]).toks
                       ELSE l.filters = was.filters
               ELSE /\ l.handlers = was.handlers
                    /\ l.filters = was.filters

\* A call for "svc", which was acquired before and whose handlers the
\* caller took away, has attached the two sinks again and a second filter.
C16_Witness ==
    \E t \in Threads :
        /\ pc[t] = "return"
        /\ arg[t].name = "svc"
        /\ returned["svc"] # {}
        /\ snap[t].inst.handlers = <<>>
        /\ Len(snap[t].inst.filters) = 1
        /\ Len(heap[lg[t]].handlers) = 2
        /\ Len(heap[lg[t]].filters) = 2

\* A call for a name whose logger holds nothing but a handler of the
\* caller's own has reached its return.
C16_ForeignWitness ==
    \E t \in Threads :
        /\ pc[t] = "return"
        /\ snap[t].inst.handlers = <<ForeignHandler>>

\* C17: from the handlers check on, and so when the call returns, the
\* logger's level is DEBUG and the directory log_dir of the call exists,
\* also when the caller had changed the level and when the instance was
\* established with another directory.
C17_LevelAndDirOnEveryCall ==
    \A t \in Threads :
        pc[t] \in {"check", "fileHandler", "consoleHandler", "filter", "return"} =>
            /\ heap[lg[t]].level = "DEBUG"
            /\ arg[t].log_dir \in dirs

\* A repeat call with a new directory, for an instance whose level the
\* caller had changed, has reached its return.
C17_Witness ==
    \E t \in Threads :
        /\ pc[t] = "return"
        /\ Existed(t)
        /\ snap[t].inst.level = "INFO"
        /\ arg[t].log_dir \notin snap[t].dirs
        /\ snap[t].inst.handlers[1].kind = "file"
        /\ snap[t].inst.handlers[1].dir # arg[t].log_dir

----------------------------------------------------------------------------
(* The instance built at import: claim C18 *)

====
